---- MODULE Spec2Model ----
(***************************************************************************)
(* Model of advanced_terminal.py: a PyQt5 window of tabbed terminal        *)
(* widgets.  Each tab is a TabContentWidget stacking a TerminalWidget and  *)
(* (once opened) an EditorWidget.  Commands typed after the prompt are     *)
(* dispatched by TerminalWidget.executeCommand; external commands run in   *)
(* daemon threads (TerminalWidget.runCommand) whose signal emissions are   *)
(* queued to the GUI thread.                                               *)
(*                                                                         *)
(* Text is a sequence of one-character strings.  The fixed message texts   *)
(* of the program are kept as one element each (the cursor is never placed *)
(* inside them by the modelled operations).  A document is the sequence of *)
(* its blocks (lines); the cursor is a block number and a column.  The     *)
(* input line is assumed not to wrap, so QTextCursor.StartOfLine and       *)
(* EndOfLine are the ends of the cursor's block.                           *)
(***************************************************************************)
EXTENDS Integers, Sequences, FiniteSets, TLC

\* ---------------------------------------------------------------- bounds
MaxEvents == 2      \* terminal events of a run: keys, menu actions, new tabs
MaxClicks == 1      \* clicks on the editor's buttons in a run
MaxTabEvents == 5   \* terminal events of a run of SpecTabs
MaxKeyEvents == 3   \* terminal events of a run of SpecKeys
MaxDepth == 2       \* depth of the directory tree of the file system

\* ------------------------------------------------------- python strings
\* s[n:]
Drop(s, n) == IF n >= Len(s) THEN <<>> ELSE SubSeq(s, n + 1, Len(s))

\* s.startswith(p)
StartsWith(s, p) == Len(s) >= Len(p) /\ SubSeq(s, 1, Len(p)) = p

\* s.endswith(p)
EndsWith(s, p) == Len(s) >= Len(p) /\ SubSeq(s, Len(s) - Len(p) + 1, Len(s)) = p

IsSpace(c) == c = " "

RECURSIVE LStrip(_)
LStrip(s) == IF s # <<>> /\ IsSpace(Head(s)) THEN LStrip(Tail(s)) ELSE s

RECURSIVE RStrip(_)
RStrip(s) ==
    IF s # <<>> /\ IsSpace(s[Len(s)]) THEN RStrip(SubSeq(s, 1, Len(s) - 1)) ELSE s

\* s.strip()
Strip(s) == RStrip(LStrip(s))

\* the leading run of non-blank characters of s
RECURSIVE TakeWord(_)
TakeWord(s) ==
    IF s = <<>> \/ IsSpace(Head(s)) THEN <<>> ELSE <<Head(s)>> \o TakeWord(Tail(s))

\* s.split(): the words of s, split at runs of blanks
RECURSIVE Split(_)
Split(s) ==
    LET t == LStrip(s)
        w == TakeWord(t)
    IN  IF t = <<>> THEN <<>> ELSE <<w>> \o Split(Drop(t, Len(w)))

\* s.split(maxsplit=1): the first word and the rest without its leading blanks
SplitMax1(s) ==
    LET t == LStrip(s)
        w == TakeWord(t)
        r == LStrip(Drop(t, Len(w)))
    IN  IF t = <<>> THEN <<>> ELSE IF r = <<>> THEN <<w>> ELSE <<w, r>>

\* s.split(sep): the pieces of s between occurrences of the character sep
RECURSIVE SplitOn(_, _)
SplitOn(s, sep) ==
    IF s = <<>> THEN << <<>> >>
    ELSE LET rest == SplitOn(Tail(s), sep)
         IN  IF Head(s) = sep THEN << <<>> >> \o rest
             ELSE << <<Head(s)>> \o Head(rest) >> \o Tail(rest)

\* s.split(' ', 1)[1]: what follows the first blank of s
RECURSIVE AfterFirstSpace(_)
AfterFirstSpace(s) ==
    IF s = <<>> THEN <<>>
    ELSE IF Head(s) = " " THEN Tail(s) ELSE AfterFirstSpace(Tail(s))

\* ----------------------------------------------------------- file system
\* Directories are sequences of one-letter names; the tree holds every
\* directory over DirNames down to MaxDepth.
DirNames == {"a", "b"}

StartDir == <<"a">>     \* os.getcwd() when the program starts

DirExists(d) == Len(d) <= MaxDepth /\ \A i \in 1..Len(d) : d[i] \in DirNames

\* str of a directory, as os.getcwd() returns it
RECURSIVE PathStr(_)
PathStr(d) ==
    IF d = <<>> THEN <<"/">>
    ELSE IF Len(d) = 1 THEN <<"/", d[1]>>
    ELSE PathStr(SubSeq(d, 1, Len(d) - 1)) \o <<"/", d[Len(d)]>>

\* walk the components of a path from directory d; ok is FALSE when a
\* component does not name an existing directory
RECURSIVE Walk(_, _)
Walk(d, comps) ==
    IF comps = <<>> THEN [ok |-> TRUE, dir |-> d]
    ELSE LET c == Head(comps) IN
         IF c = <<>> THEN Walk(d, Tail(comps))
         ELSE IF c = <<".", ".">>
              THEN Walk(IF d = <<>> THEN d ELSE SubSeq(d, 1, Len(d) - 1), Tail(comps))
         ELSE IF Len(c) = 1 /\ DirExists(Append(d, c[1]))
              THEN Walk(Append(d, c[1]), Tail(comps))
         ELSE [ok |-> FALSE, dir |-> d]

\* os.chdir(path) with the process in directory base: the directory reached
chdir(base, path) ==
    IF path = <<>> THEN [ok |-> FALSE, dir |-> base]
    ELSE Walk(IF Head(path) = "/" THEN <<>> ELSE base, SplitOn(path, "/"))

\* ------------------------------------------------------------------ state
VARIABLES
    tabs,       \* the TabContentWidgets of the window, in creation order
    procCwd,    \* the working directory of the process (os.getcwd())
    workers,    \* the threads started for runCommand, in creation order
    mq,         \* signal emissions of the threads queued to the GUI thread
    alive,      \* FALSE once QApplication.quit() was called
    nev,        \* terminal events handled so far
    nclick,     \* editor button clicks handled so far
    limit       \* the events and clicks the run is bounded to

vars == <<tabs, procCwd, workers, mq, alive, nev, nclick, limit>>

Tabs == 1..Len(tabs)
Workers == 1..Len(workers)

\* ------------------------------------------------------- TerminalWidget
\* the prompt string for a working directory (login name u, host name h)
PromptOf(cwd) == <<"u", "@", "h", ":">> \o PathStr(cwd) \o <<"$", " ">>

updatePrompt(tw) == [tw EXCEPT !.prompt = PromptOf(tw.cwd)]

EndOf(doc) == [b |-> Len(doc), c |-> Len(doc[Len(doc)])]

moveCursorToEnd(tw) == [tw EXCEPT !.cur = EndOf(tw.doc)]

EmptyDoc == << <<>> >>

\* QPlainTextEdit.clear()
clear(tw) == [tw EXCEPT !.doc = EmptyDoc, !.cur = [b |-> 1, c |-> 0]]

\* QPlainTextEdit.appendPlainText(text): a new paragraph at the end of the
\* document (into the first block when the document is empty).  A text
\* cursor standing at the end of the document moves with the inserted
\* text; any other cursor position is kept.
appendPlainText(tw, text) ==
    LET new == IF tw.doc = EmptyDoc THEN SplitOn(text, "\n")
               ELSE tw.doc \o SplitOn(text, "\n")
    IN  [tw EXCEPT !.doc = new,
                   !.cur = IF tw.cur = EndOf(tw.doc) THEN EndOf(new) ELSE @]

\* slot of promptUpdated; also called directly
updatePromptDisplay(tw) == moveCursorToEnd(updatePrompt(tw))

\* slot of commandFinished
onCommandFinished(tw) == moveCursorToEnd(appendPlainText(tw, tw.prompt))

\* a variant of resetTerminal that also empties the command history
resetTerminal_clearsHistory(tw, dir) ==
    moveCursorToEnd(
        LET r == updatePrompt([clear(tw) EXCEPT !.cwd = dir, !.command_history = <<>>,
                                                !.history_index = -1])
        IN  appendPlainText(r, r.prompt))

\* resetTerminal, with the process in directory dir
resetTerminal(tw, dir) ==
    moveCursorToEnd(
        LET r == updatePrompt([clear(tw) EXCEPT !.cwd = dir])
        IN  appendPlainText(r, r.prompt))

\* the block the cursor is in
CurLine(tw) == tw.doc[tw.cur.b]

replaceCurrentLine(tw, text) ==
    LET line == tw.prompt \o text
    IN  [tw EXCEPT !.doc[tw.cur.b] = line, !.cur.c = Len(line)]

showPreviousCommand(tw) ==
    IF tw.command_history # <<>>
    THEN LET i == IF tw.history_index = -1 THEN Len(tw.command_history) - 1
                  ELSE IF tw.history_index > 0 THEN tw.history_index - 1
                  ELSE tw.history_index
         IN  replaceCurrentLine([tw EXCEPT !.history_index = i],
                                tw.command_history[i + 1])
    ELSE tw

showNextCommand(tw) ==
    IF tw.command_history # <<>> /\ tw.history_index # -1
    THEN IF tw.history_index < Len(tw.command_history) - 1
         THEN replaceCurrentLine([tw EXCEPT !.history_index = @ + 1],
                                 tw.command_history[tw.history_index + 2])
         ELSE replaceCurrentLine([tw EXCEPT !.history_index = -1], <<>>)
    ELSE tw

\* QTextCursor.movePosition(Right, MoveAnchor, n) from block b, column c
RECURSIVE MoveRight(_, _, _, _)
MoveRight(doc, b, c, n) ==
    IF n = 0 THEN [b |-> b, c |-> c]
    ELSE IF c < Len(doc[b]) THEN MoveRight(doc, b, c + 1, n - 1)
    ELSE IF b < Len(doc) THEN MoveRight(doc, b + 1, 0, n - 1)
    ELSE [b |-> b, c |-> c]

\* the text a key press inserts at the cursor
InsertAtCursor(tw, s) ==
    LET line == CurLine(tw)
    IN  [tw EXCEPT !.doc[tw.cur.b] =
                       SubSeq(line, 1, tw.cur.c) \o s \o Drop(line, tw.cur.c),
                   !.cur.c = @ + Len(s)]

\* QPlainTextEdit's own handling of Backspace: delete the character before
\* the cursor
DeleteBeforeCursor(tw) ==
    LET line == CurLine(tw)
    IN  [tw EXCEPT !.doc[tw.cur.b] =
                       SubSeq(line, 1, tw.cur.c - 1) \o Drop(line, tw.cur.c),
                   !.cur.c = @ - 1]

\* TerminalWidget.__init__ in a process whose working directory is dir
NewTerminal(dir) ==
    LET p == PromptOf(dir) IN
    [cwd |-> dir, prompt |-> p, doc |-> <<p>>, cur |-> [b |-> 1, c |-> Len(p)],
     command_history |-> <<>>, history_index |-> -1, in_editor |-> FALSE,
     view |-> "terminal",
     editor |-> [present |-> FALSE, file_path |-> <<>>, dir |-> <<>>],
     dialog |-> <<>>,
     dispatched |-> <<>>, created |-> dir]

\* MainWindow.__init__: one tab, in a run bounded to so many events and clicks
InitWith(events, clicks) ==
    /\ tabs = <<NewTerminal(StartDir)>>
    /\ procCwd = StartDir
    /\ workers = <<>>
    /\ mq = <<>>
    /\ alive = TRUE
    /\ nev = 0
    /\ nclick = 0
    /\ limit = [events |-> events, clicks |-> clicks]

Init == InitWith(MaxEvents, MaxClicks)

\* --------------------------------------------------------- command texts
CmdExit == <<"e", "x", "i", "t">>
CmdClear == <<"c", "l", "e", "a", "r">>
CmdReset == <<"r", "e", "s", "e", "t">>
PrefixCd == <<"c", "d", " ">>
PrefixText == <<"t", "e", "x", "t">>
PrefixSudo == <<"s", "u", "d", "o", " ">>
PipeLess == <<"|", " ", "l", "e", "s", "s">>
PipeMore == <<"|", " ", "m", "o", "r", "e">>

interactive_commands ==
    { <<"v", "i">>, <<"v", "i", "m">>, <<"t", "o", "p">>, <<"h", "t", "o", "p">>,
      <<"l", "e", "s", "s">>, <<"m", "o", "r", "e">>, <<"m", "a", "n">>,
      <<"s", "s", "h">>, <<"f", "t", "p">> }

\* a variant of the test that forgets the '| less' and '| more' endings
IsInteractive_firstWordOnly(command) == Split(command)[1] \in interactive_commands

\* the test of runCommand for an interactive command
IsInteractive(command) ==
    \/ Split(command)[1] \in interactive_commands
    \/ EndsWith(command, PipeLess)
    \/ EndsWith(command, PipeMore)

\* the texts the program writes
EchoText(prompt, command) == <<"\n">> \o prompt \o command \o <<"\n">>
ChdirErrorText(new_dir) ==
    <<"Error: [Errno 2] No such file or directory: '">> \o new_dir \o <<"'", "\n">>
UsageText == <<"Usage: text <filename>", "\n">>
CanceledText == <<"Password input canceled.", "\n">>
InteractiveText(word) ==
    <<"Interactive command '">> \o word \o <<"' is not supported internally.", "\n">>
PopenErrorText == <<"Error executing command: ", "\n">>
SavedText == <<"File saved successfully.", "\n">>
SaveErrorText == <<"Error saving file: ", "\n">>
ExitedText == <<"Exited editor.", "\n">>

\* what a subprocess may leave on stdout and on stderr
Stdouts == { <<>>, <<"o", "\n">> }
Stderrs == { <<>>, <<"e", "\n">> }

\* ------------------------------------------------------ TabContentWidget
\* EditorWidget.load_file: the path is opened relative to the directory of
\* the process
load_file(file_path, dir) == [present |-> TRUE, file_path |-> file_path, dir |-> dir]

\* TabContentWidget.openEditor (the tab's record holds the terminal's fields
\* and the stacked layout's current view)
openEditor(tw, filename, dir) ==
    [tw EXCEPT !.editor = load_file(filename, dir), !.view = "editor"]

closeEditor(tw) == IF tw.editor.present THEN [tw EXCEPT !.view = "terminal"] ELSE tw

\* TerminalWidget.runText
runText(tw, filename, dir) ==
    openEditor(appendPlainText([tw EXCEPT !.in_editor = TRUE], <<>>), filename, dir)

\* TerminalWidget.onEditorClosed(message)
onEditorClosed(tw, message) ==
    onCommandFinished(
        [updatePromptDisplay(appendPlainText(tw, message)) EXCEPT !.in_editor = FALSE])

\* ------------------------------------------------------- executeCommand
\* the command executeCommand reads from the cursor's line
CommandAtCursor(tw) == Strip(Drop(CurLine(tw), Len(tw.prompt)))

\* executeCommand adds the command to the history
recordCommand(tw, command) ==
    [tw EXCEPT !.command_history = Append(@, command), !.history_index = -1]

\* the branch of executeCommand's dispatch a command takes
Branch(command) ==
    IF command = <<>> THEN "empty"
    ELSE IF command = CmdExit THEN "exit"
    ELSE IF command = CmdClear THEN "clear"
    ELSE IF command = CmdReset THEN "reset"
    ELSE IF StartsWith(command, PrefixCd) THEN "cd"
    ELSE IF StartsWith(command, PrefixText) THEN "text"
    ELSE IF StartsWith(command, PrefixSudo) THEN "sudo"
    ELSE "thread"

\* history of the model: the commands executeCommand dispatched, each with
\* the branch that handled it
Routed(tw, command, route) ==
    [tw EXCEPT !.dispatched = Append(@, [command |-> command, route |-> route])]

\* threading.Thread(target=self.runCommand, args=(command, password))
NewWorker(t, command, password) ==
    [tab |-> t, command |-> command, password |-> password, pc |-> "start",
     calls |-> 0, procs |-> <<>>, finished |-> 0, emitted |-> <<>>, written |-> 0,
     prompt |-> <<>>]

\* a handler of the GUI thread that only changes tab t
OnlyTab(t, tw) ==
    /\ tabs' = [tabs EXCEPT ![t] = tw]
    /\ UNCHANGED <<procCwd, workers, mq, alive>>

ExecEmpty(t, tw) == OnlyTab(t, moveCursorToEnd(appendPlainText(tw, tw.prompt)))

\* runCommand("exit") called in the GUI thread: the signals are delivered
\* at once
ExecExit(t, tw, command) ==
    /\ tabs' = [tabs EXCEPT ![t] =
                   Routed(onCommandFinished(
                              appendPlainText(tw, EchoText(tw.prompt, command))),
                          command, "exit")]
    /\ alive' = FALSE
    /\ UNCHANGED <<procCwd, workers, mq>>

ExecClear(t, tw, command) ==
    OnlyTab(t, Routed(moveCursorToEnd(updatePromptDisplay(clear(tw))), command, "clear"))

ExecReset(t, tw, command) ==
    OnlyTab(t, Routed(resetTerminal(tw, procCwd), command, "reset"))

ExecCd(t, tw, command) ==
    LET new_dir == AfterFirstSpace(command)
        r == chdir(procCwd, new_dir)
        tw2 == IF r.ok THEN [tw EXCEPT !.cwd = r.dir]
               ELSE appendPlainText(tw, ChdirErrorText(new_dir))
        tw3 == updatePrompt(tw2)
    IN  /\ procCwd' = (IF r.ok THEN r.dir ELSE procCwd)
        /\ tabs' = [tabs EXCEPT ![t] =
                       Routed(moveCursorToEnd(appendPlainText(tw3, tw3.prompt)),
                              command, "cd")]
        /\ UNCHANGED <<workers, mq, alive>>

ExecText(t, tw, command) ==
    LET parts == SplitMax1(command) IN
    IF Len(parts) = 2
    THEN OnlyTab(t, Routed(runText(tw, parts[2], procCwd), command, "editor"))
    ELSE OnlyTab(t, Routed(moveCursorToEnd(updatePromptDisplay(
                                appendPlainText(tw, UsageText))), command, "usage"))

\* QInputDialog.getText opens a modal dialog; its event loop runs until the
\* dialog is answered
ExecSudo(t, tw, command) == OnlyTab(t, [tw EXCEPT !.dialog = <<command>>])

ExecThread(t, tw, command) ==
    /\ tabs' = [tabs EXCEPT ![t] = Routed(tw, command, "thread")]
    /\ workers' = Append(workers, NewWorker(t, command, FALSE))
    /\ UNCHANGED <<procCwd, mq, alive>>

executeCommand(t) ==
    LET tw == tabs[t]
        command == CommandAtCursor(tw)
        tw1 == recordCommand(tw, command)
        branch == Branch(command)
    IN  CASE branch = "empty" -> ExecEmpty(t, tw)
          [] branch = "exit" -> ExecExit(t, tw1, command)
          [] branch = "clear" -> ExecClear(t, tw1, command)
          [] branch = "reset" -> ExecReset(t, tw1, command)
          [] branch = "cd" -> ExecCd(t, tw1, command)
          [] branch = "text" -> ExecText(t, tw1, command)
          [] branch = "sudo" -> ExecSudo(t, tw1, command)
          [] OTHER -> ExecThread(t, tw1, command)

\* the rest of executeCommand once the password dialog is answered: with a
\* password (ok) or canceled
DialogAnswered(t, ok) ==
    LET tw == tabs[t]
        tw1 == [tw EXCEPT !.dialog = <<>>]
    IN  /\ alive
        /\ tw.dialog # <<>>
        /\ UNCHANGED <<nev, nclick, limit>>
        /\ IF ~ok
           THEN OnlyTab(t, Routed(moveCursorToEnd(updatePromptDisplay(
                                       appendPlainText(tw1, CanceledText))),
                                  tw.dialog[1], "canceled"))
           ELSE /\ tabs' = [tabs EXCEPT ![t] = Routed(tw1, tw.dialog[1], "thread")]
                /\ workers' = Append(workers, NewWorker(t, tw.dialog[1], TRUE))
                /\ UNCHANGED <<procCwd, mq, alive>>

\* ------------------------------------------------------------ user events
\* a modal dialog blocks every other input to the window
NoDialog == \A u \in Tabs : tabs[u].dialog = <<>>

\* the terminal of tab t is shown and takes a key or menu event
TerminalEvent(t) ==
    /\ alive
    /\ NoDialog
    /\ nev < limit.events
    /\ tabs[t].view = "terminal"
    /\ nev' = nev + 1
    /\ UNCHANGED <<nclick, limit>>

\* QPlainTextEdit's own handling of a key the filter lets through
DefaultKey(tw, key) ==
    CASE key = "Return" ->
             LET line == CurLine(tw)
                 b == tw.cur.b
             IN  [tw EXCEPT !.doc = SubSeq(tw.doc, 1, b - 1)
                                    \o <<SubSeq(line, 1, tw.cur.c), Drop(line, tw.cur.c)>>
                                    \o Drop(tw.doc, b),
                            !.cur = [b |-> b + 1, c |-> 0]]
      [] key = "Backspace" ->
             IF tw.cur.c > 0 THEN DeleteBeforeCursor(tw)
             ELSE IF tw.cur.b > 1
             THEN LET b == tw.cur.b IN
                  [tw EXCEPT !.doc = SubSeq(tw.doc, 1, b - 2)
                                     \o <<tw.doc[b - 1] \o tw.doc[b]>>
                                     \o Drop(tw.doc, b),
                             !.cur = [b |-> b - 1, c |-> Len(tw.doc[b - 1])]]
             ELSE tw
      [] key = "Left" ->
             IF tw.cur.c > 0 THEN [tw EXCEPT !.cur.c = @ - 1]
             ELSE IF tw.cur.b > 1
             THEN [tw EXCEPT !.cur = [b |-> tw.cur.b - 1, c |-> Len(tw.doc[tw.cur.b - 1])]]
             ELSE tw
      [] key = "Home" -> [tw EXCEPT !.cur.c = 0]
      [] key = "Up" ->
             IF tw.cur.b > 1
             THEN [tw EXCEPT !.cur = [b |-> tw.cur.b - 1,
                                      c |-> IF tw.cur.c < Len(tw.doc[tw.cur.b - 1])
                                            THEN tw.cur.c ELSE Len(tw.doc[tw.cur.b - 1])]]
             ELSE tw
      [] OTHER ->
             IF tw.cur.b < Len(tw.doc)
             THEN [tw EXCEPT !.cur = [b |-> tw.cur.b + 1,
                                      c |-> IF tw.cur.c < Len(tw.doc[tw.cur.b + 1])
                                            THEN tw.cur.c ELSE Len(tw.doc[tw.cur.b + 1])]]
             ELSE tw

\* eventFilter: Backspace and Left, swallowed at the prompt
swallowed(tw) == tw.cur.c <= Len(tw.prompt)

\* eventFilter: Home
homeKey(tw) ==
    [tw EXCEPT !.cur = MoveRight(tw.doc, tw.cur.b, 0, Len(tw.prompt))]

\* eventFilter for Return / Enter
KeyEnter(t) ==
    /\ TerminalEvent(t)
    /\ IF tabs[t].in_editor THEN OnlyTab(t, DefaultKey(tabs[t], "Return"))
       ELSE executeCommand(t)

\* eventFilter for the other keys it handles
KeyNav(t, key) ==
    /\ TerminalEvent(t)
    /\ LET tw == tabs[t] IN
       OnlyTab(t,
           IF tw.in_editor THEN DefaultKey(tw, key)
           ELSE CASE key = "Backspace" ->
                         IF swallowed(tw) THEN tw ELSE DefaultKey(tw, key)
                  [] key = "Left" ->
                         IF swallowed(tw) THEN tw ELSE DefaultKey(tw, key)
                  [] key = "Home" -> homeKey(tw)
                  [] key = "Up" -> showPreviousCommand(tw)
                  [] OTHER -> showNextCommand(tw))

NavKeys == {"Backspace", "Left", "Home", "Up", "Down"}

\* eventFilter for the keys of a text s typed at the cursor
TypeText(t, s) ==
    /\ TerminalEvent(t)
    /\ OnlyTab(t, InsertAtCursor(tabs[t], s))

\* context menu: Clear is QPlainTextEdit.clear, Reset is resetTerminal
MenuClear(t) ==
    /\ TerminalEvent(t)
    /\ OnlyTab(t, clear(tabs[t]))

MenuReset(t) ==
    /\ TerminalEvent(t)
    /\ OnlyTab(t, resetTerminal(tabs[t], procCwd))

\* the editor of tab t is shown and one of its buttons is clicked
EditorEvent(t) ==
    /\ alive
    /\ NoDialog
    /\ nclick < limit.clicks
    /\ tabs[t].view = "editor"
    /\ nclick' = nclick + 1
    /\ UNCHANGED <<nev, limit>>

\* EditorWidget.save_file: the file is written (ok) or the write raises
save_file(t) ==
    /\ EditorEvent(t)
    /\ \E ok \in BOOLEAN :
           OnlyTab(t, onEditorClosed([tabs[t] EXCEPT !.editor.dir = procCwd],
                                     IF ok THEN SavedText ELSE SaveErrorText))

\* EditorWidget.exit_editor
exit_editor(t) ==
    /\ EditorEvent(t)
    /\ OnlyTab(t, closeEditor(onEditorClosed(tabs[t], ExitedText)))

\* TerminalTabWidget.addNewTab
addNewTab ==
    /\ alive
    /\ NoDialog
    /\ nev < limit.events
    /\ nev' = nev + 1
    /\ tabs' = Append(tabs, NewTerminal(procCwd))
    /\ UNCHANGED <<procCwd, workers, mq, alive, nclick, limit>>

\* ------------------------------------------------------------ runCommand
\* a signal emitted by thread w: queued to the GUI thread
Signal(w, kind, text) == [w |-> w, tab |-> workers[w].tab, kind |-> kind, text |-> text]

\* a variant that emits stderr before stdout
outputSignals_stderrFirst(w, stdout, stderr) ==
    (IF stderr # <<>> THEN <<Signal(w, "outputWritten", stderr)>> ELSE <<>>)
    \o (IF stdout # <<>> THEN <<Signal(w, "outputWritten", stdout)>> ELSE <<>>)

\* the signals runCommand emits for what a finished subprocess left
outputSignals(w, stdout, stderr) ==
    (IF stdout # <<>> THEN <<Signal(w, "outputWritten", stdout)>> ELSE <<>>)
    \o (IF stderr # <<>> THEN <<Signal(w, "outputWritten", stderr)>> ELSE <<>>)

\* thread w emits the signals sigs, in order, and goes to pc
Emit(w, sigs, pc) ==
    /\ mq' = mq \o sigs
    /\ workers' = [workers EXCEPT ![w].emitted = @ \o sigs, ![w].pc = pc]

\* the Popen call of runCommand: the argument list and the directory
popenArgs(wk, cwd) ==
    IF StartsWith(wk.command, PrefixSudo) /\ wk.password
    THEN [sudo |-> TRUE, script |-> Drop(wk.command, 5), cwd |-> cwd]
    ELSE [sudo |-> FALSE, script |-> wk.command, cwd |-> cwd]

\* runCommand up to the subprocess: the echo of the command, then exit, cd
\* and the interactive commands
runCommandBegin(w) ==
    LET wk == workers[w]
        t == wk.tab
        tw == tabs[t]
        echo == Signal(w, "outputWritten", EchoText(tw.prompt, wk.command))
    IN  /\ alive
        /\ wk.pc = "start"
        /\ UNCHANGED <<nev, nclick, limit>>
        /\ IF wk.command = CmdExit
           THEN /\ Emit(w, <<echo, Signal(w, "commandFinished", <<>>)>>, "done")
                /\ alive' = FALSE
                /\ UNCHANGED <<tabs, procCwd>>
           ELSE IF StartsWith(wk.command, PrefixCd)
           THEN LET new_dir == AfterFirstSpace(wk.command)
                    r == chdir(procCwd, new_dir)
                    tw2 == updatePrompt(IF r.ok THEN [tw EXCEPT !.cwd = r.dir] ELSE tw)
                IN  /\ procCwd' = (IF r.ok THEN r.dir ELSE procCwd)
                    /\ tabs' = [tabs EXCEPT ![t] = tw2]
                    /\ Emit(w, <<echo>>
                               \o (IF r.ok THEN <<>>
                                   ELSE <<Signal(w, "outputWritten", ChdirErrorText(new_dir))>>)
                               \o <<Signal(w, "promptUpdated", tw2.prompt),
                                    Signal(w, "commandFinished", <<>>)>>, "done")
                    /\ alive' = alive
           ELSE IF IsInteractive(wk.command)
           THEN /\ Emit(w, <<echo,
                             Signal(w, "outputWritten",
                                    InteractiveText(Split(wk.command)[1])),
                             Signal(w, "promptUpdated", tw.prompt),
                             Signal(w, "commandFinished", <<>>)>>, "done")
                /\ UNCHANGED <<tabs, procCwd, alive>>
           ELSE /\ Emit(w, <<echo>>, "popen")
                /\ UNCHANGED <<tabs, procCwd, alive>>

\* subprocess.Popen(..., cwd=self.cwd): the subprocess starts, or the call
\* raises and the error text is emitted
runCommandPopen(w) ==
    LET wk == workers[w] IN
    /\ alive
    /\ wk.pc = "popen"
    /\ UNCHANGED <<tabs, procCwd, alive, nev, nclick, limit>>
    /\ \E ok \in BOOLEAN :
           IF ok
           THEN /\ workers' = [workers EXCEPT
                       ![w].calls = @ + 1,
                       ![w].procs = Append(@, popenArgs(wk, tabs[wk.tab].cwd)),
                       ![w].pc = "running"]
                /\ mq' = mq
           ELSE /\ mq' = Append(mq, Signal(w, "outputWritten", PopenErrorText))
                /\ workers' = [workers EXCEPT
                       ![w].calls = @ + 1,
                       ![w].emitted = Append(@, Signal(w, "outputWritten", PopenErrorText)),
                       ![w].pc = "update"]

\* process.communicate() returns when the subprocess has finished, with all
\* it wrote; stdout then stderr are emitted
runCommandCommunicate(w) ==
    LET wk == workers[w] IN
    /\ alive
    /\ wk.pc = "running"
    /\ UNCHANGED <<tabs, procCwd, alive, nev, nclick, limit>>
    /\ \E stdout \in Stdouts, stderr \in Stderrs :
           /\ mq' = mq \o outputSignals(w, stdout, stderr)
           /\ workers' = [workers EXCEPT
                  ![w].emitted = @ \o outputSignals(w, stdout, stderr),
                  ![w].finished = @ + 1,
                  ![w].pc = "update"]

\* self.updatePrompt() in the thread: the prompt string is built from
\* self.cwd ...
runCommandReadCwd(w) ==
    LET wk == workers[w] IN
    /\ alive
    /\ wk.pc = "update"
    /\ workers' = [workers EXCEPT ![w].prompt = PromptOf(tabs[wk.tab].cwd),
                                  ![w].pc = "store"]
    /\ UNCHANGED <<tabs, procCwd, mq, alive, nev, nclick, limit>>

\* ... and stored in self.prompt; then promptUpdated and commandFinished
runCommandEnd(w) ==
    LET wk == workers[w] IN
    /\ alive
    /\ wk.pc = "store"
    /\ tabs' = [tabs EXCEPT ![wk.tab].prompt = wk.prompt]
    /\ Emit(w, <<Signal(w, "promptUpdated", wk.prompt),
                 Signal(w, "commandFinished", <<>>)>>, "done")
    /\ UNCHANGED <<procCwd, alive, nev, nclick, limit>>

\* the GUI thread's event loop delivers the oldest queued signal to its slot
Deliver ==
    /\ alive
    /\ mq # <<>>
    /\ LET e == Head(mq)
           tw == tabs[e.tab]
       IN  /\ tabs' = [tabs EXCEPT ![e.tab] =
                   CASE e.kind = "outputWritten" -> appendPlainText(tw, e.text)
                     [] e.kind = "promptUpdated" -> updatePromptDisplay(tw)
                     [] OTHER -> onCommandFinished(tw)]
           /\ workers' = [workers EXCEPT ![e.w].written = @ + 1]
    /\ mq' = Tail(mq)
    /\ UNCHANGED <<procCwd, alive, nev, nclick, limit>>

\* ---------------------------------------------------------- specification
Cmd_ls == <<"l", "s">>
Cmd_vi == <<"v", "i">>
Cmd_pipe == <<"w", "|", " ", "l", "e", "s", "s">>
Cmd_cd_b == <<"c", "d", " ", "b">>
Cmd_cd_up == <<"c", "d", " ", ".", ".">>
Cmd_cd_c == <<"c", "d", " ", "c">>
Cmd_cd_pipe == <<"c", "d", " ", "b", "|", " ", "m", "o", "r", "e">>
Cmd_text_f == <<"t", "e", "x", "t", " ", "f">>
Cmd_textx_f == <<"t", "e", "x", "t", "x", " ", "f">>
Cmd_sudo == <<"s", "u", "d", "o", " ", "w">>

\* the texts typed in a run
Typed ==
    { Cmd_ls, Cmd_vi, Cmd_pipe, Cmd_cd_b, Cmd_cd_up, Cmd_cd_c, Cmd_cd_pipe,
      CmdExit, CmdClear, CmdReset, PrefixText, Cmd_text_f, Cmd_textx_f, Cmd_sudo }

\* the worker threads and the GUI thread's event loop
Background ==
    \/ \E w \in Workers : runCommandBegin(w)
    \/ \E w \in Workers : runCommandPopen(w)
    \/ \E w \in Workers : runCommandCommunicate(w)
    \/ \E w \in Workers : runCommandReadCwd(w)
    \/ \E w \in Workers : runCommandEnd(w)
    \/ Deliver

Next ==
    \/ \E t \in Tabs : \E s \in Typed : TypeText(t, s)
    \/ \E t \in Tabs : KeyEnter(t)
    \/ \E t \in Tabs : \E key \in NavKeys : KeyNav(t, key)
    \/ \E t \in Tabs : \E ok \in BOOLEAN : DialogAnswered(t, ok)
    \/ \E t \in Tabs : MenuClear(t)
    \/ \E t \in Tabs : MenuReset(t)
    \/ \E t \in Tabs : save_file(t)
    \/ \E t \in Tabs : exit_editor(t)
    \/ addNewTab
    \/ Background

Spec == Init /\ [][Next]_vars

\* Runs of several tabs: directory changes and editors, all in the GUI
\* thread.
TypedTabs == { Cmd_cd_b, Cmd_cd_up, Cmd_text_f }

InitTabs == InitWith(MaxTabEvents, MaxClicks)

NextTabs ==
    \/ \E t \in Tabs : \E s \in TypedTabs : TypeText(t, s)
    \/ \E t \in Tabs : KeyEnter(t)
    \/ \E t \in Tabs : save_file(t)
    \/ \E t \in Tabs : exit_editor(t)
    \/ addNewTab

SpecTabs == InitTabs /\ [][NextTabs]_vars

\* Runs of one tab: line editing around commands.
TypedKeys == { CmdClear, Cmd_ls }

InitKeys == InitWith(MaxKeyEvents, 0)

NextKeys ==
    \/ \E s \in TypedKeys : TypeText(1, s)
    \/ KeyEnter(1)
    \/ \E key \in NavKeys : KeyNav(1, key)
    \/ Background

SpecKeys == InitKeys /\ [][NextKeys]_vars

\* ================================================================ claims
LastLine(tw) == tw.doc[Len(tw.doc)]

\* tab t is idle: its terminal is shown, not in editor mode, no dialog is
\* open, and no command of the tab is running or has signals in the queue
Idle(t) ==
    /\ alive
    /\ tabs[t].view = "terminal"
    /\ ~tabs[t].in_editor
    /\ tabs[t].dialog = <<>>
    /\ \A w \in Workers : workers[w].tab = t => workers[w].pc = "done"
    /\ \A i \in 1..Len(mq) : mq[i].tab # t

\* the signals of thread w still queued, oldest first
Queued(w) == SelectSeq(mq, LAMBDA e : e.w = w)

IsStdout(e) == e.kind = "outputWritten" /\ e.text \in Stdouts
IsStderr(e) == e.kind = "outputWritten" /\ e.text \in Stderrs
IsEcho(wk, e) ==
    /\ e.kind = "outputWritten"
    /\ Len(e.text) > Len(wk.command) + 1
    /\ e.text[1] = "\n"
    /\ EndsWith(e.text, wk.command \o <<"\n">>)

\* ---- C1 ----------------------------------------------------------------
\* the commands the claim calls interactive
C1_Words ==
    { <<"v", "i">>, <<"v", "i", "m">>, <<"t", "o", "p">>, <<"h", "t", "o", "p">>,
      <<"l", "e", "s", "s">>, <<"m", "o", "r", "e">>, <<"m", "a", "n">>,
      <<"s", "s", "h">>, <<"f", "t", "p">> }

C1_Listed(command) ==
    \/ TakeWord(command) \in C1_Words
    \/ EndsWith(command, <<"|", " ", "l", "e", "s", "s">>)
    \/ EndsWith(command, <<"|", " ", "m", "o", "r", "e">>)

C1_RejectedBy(wk) ==
    /\ wk.calls = 0
    /\ wk.procs = <<>>
    /\ wk.pc \in {"start", "done"}
    /\ wk.pc = "done" =>
          /\ Len(wk.emitted) = 4
          /\ IsEcho(wk, wk.emitted[1])
          /\ wk.emitted[2].kind = "outputWritten"
          /\ wk.emitted[2].text =
                 <<"Interactive command '">> \o TakeWord(wk.command)
                     \o <<"' is not supported internally.", "\n">>
          /\ wk.emitted[3].kind = "promptUpdated"
          /\ wk.emitted[4].kind = "commandFinished"

\* C1 as amended: every submitted command that executeCommand hands to
\* runCommand and whose first word is vi, vim, top, htop, less, more, man,
\* ssh or ftp, or whose text ends with '| less' or '| more', starts no
\* subprocess; runCommand emits the echo, then the message "Interactive
\* command '<first word>' is not supported internally.", then promptUpdated
\* and commandFinished, which the GUI thread delivers in that order.
C1_Rejected ==
    \A w \in Workers :
        C1_Listed(workers[w].command) =>
            /\ C1_RejectedBy(workers[w])
            /\ Queued(w) = SubSeq(workers[w].emitted, workers[w].written + 1,
                                  Len(workers[w].emitted))

\* C1 witness: a command ending with '| less' was rejected and all its
\* signals were delivered
C1_Witness ==
    \E w \in Workers :
        /\ EndsWith(workers[w].command, PipeLess)
        /\ workers[w].pc = "done"
        /\ workers[w].written = 4

\* C1 as stated: every submitted command with such a first word or such an
\* ending is rejected by runCommand with the message (so it was handed to
\* runCommand) and starts no subprocess.
C1_Original ==
    /\ C1_Rejected
    /\ \A t \in Tabs : \A i \in 1..Len(tabs[t].dispatched) :
           C1_Listed(tabs[t].dispatched[i].command) =>
               tabs[t].dispatched[i].route = "thread"

\* ---- C2 ----------------------------------------------------------------
\* thread w reached the external shell
C2_External(wk) == ~C1_Listed(wk.command) /\ wk.pc # "start"

\* the order of what thread wk emitted: the echo first; stdout before
\* stderr; no output before the subprocess finished; promptUpdated and
\* commandFinished last
C2_Ordered(wk) ==
    LET e == wk.emitted IN
    /\ e # <<>> /\ IsEcho(wk, e[1])
    /\ \A i \in 2..Len(e) :
           /\ (IsStdout(e[i]) \/ IsStderr(e[i])) => wk.finished = 1
           /\ IsStdout(e[i]) => \A j \in 2..(i - 1) : ~IsStderr(e[j])
           /\ e[i].kind = "commandFinished" => i = Len(e) /\ wk.pc = "done"
           /\ e[i].kind = "promptUpdated" => i = Len(e) - 1
    /\ wk.pc = "done" => Len(e) >= 3 /\ e[Len(e)].kind = "commandFinished"
                         /\ e[Len(e) - 1].kind = "promptUpdated"

\* C2 as amended: every submitted command that reaches the external shell
\* makes exactly one subprocess call; the call starts one subprocess or
\* raises, and then 'Error executing command' is emitted and no subprocess
\* runs; nothing of the output is emitted before the subprocess has
\* finished, stdout comes before stderr, and commandFinished is emitted
\* last; the GUI thread writes them in the order emitted.
C2_SingleCall ==
    \A w \in Workers :
        LET wk == workers[w] IN
        C2_External(wk) =>
            /\ wk.calls = (IF wk.pc = "popen" THEN 0 ELSE 1)
            /\ Len(wk.procs) <= wk.calls
            /\ wk.finished <= Len(wk.procs)
            /\ (wk.pc \in {"update", "store", "done"} /\ wk.procs = <<>>) =>
                   /\ Len(wk.emitted) >= 2
                   /\ wk.emitted[2].text = PopenErrorText
            /\ (wk.pc \in {"update", "store", "done"} /\ wk.procs # <<>>) =>
                   wk.finished = 1
            /\ C2_Ordered(wk)
            /\ Queued(w) = SubSeq(wk.emitted, wk.written + 1, Len(wk.emitted))

\* C2 witness: an external command ran one subprocess that left stdout and
\* stderr, and everything was written
C2_Witness ==
    \E w \in Workers :
        LET wk == workers[w] IN
        /\ wk.pc = "done"
        /\ Len(wk.procs) = 1
        /\ Len(wk.emitted) = 5
        /\ wk.written = 5

\* C2 as stated: ... starts exactly one subprocess ...
C2_Original ==
    /\ C2_SingleCall
    /\ \A w \in Workers :
           (C2_External(workers[w]) /\ workers[w].pc \in {"update", "store", "done"}) =>
               Len(workers[w].procs) = 1

\* ---- C3 ----------------------------------------------------------------
IsRelative(path) == path # <<>> /\ Head(path) # "/"

\* C3: a tab's relative 'cd <path>' and 'text <file>' arguments are
\* resolved against the tab's own cwd, and its external commands run in
\* that cwd, whatever cd commands other tabs executed.
C3_PerTabCwd ==
    [][ /\ \A t \in Tabs :
              LET tw == tabs[t]
                  command == CommandAtCursor(tw)
                  arg == AfterFirstSpace(command)
                  parts == SplitMax1(command)
                  own == chdir(tw.cwd, arg)
              IN  /\ (KeyEnter(t) /\ Branch(command) = "cd" /\ IsRelative(arg)) =>
                         tabs'[t].cwd = (IF own.ok THEN own.dir ELSE tw.cwd)
                  /\ (KeyEnter(t) /\ Branch(command) = "text" /\ Len(parts) = 2
                          /\ IsRelative(parts[2])) =>
                         tabs'[t].editor.dir = tw.cwd
        /\ \A w \in Workers :
              Len(workers'[w].procs) > Len(workers[w].procs) =>
                  workers'[w].procs[Len(workers'[w].procs)].cwd
                      = tabs[workers[w].tab].cwd
      ]_vars

\* ---- C4 ----------------------------------------------------------------
\* C4: in every reachable state of a tab, in_editor is true exactly when the
\* stacked layout shows the editor.
C4_ModeToggle ==
    \A t \in Tabs : tabs[t].in_editor <=> tabs[t].view = "editor"

\* ---- C5 ----------------------------------------------------------------
\* C5: the editor opens exactly when the command is the word 'text' followed
\* by a filename, and then edits that filename; 'text' alone prints the
\* usage line; every other command is dispatched as an ordinary command.
C5_EditorOnlyByText ==
    \A t \in Tabs :
        /\ \A i \in 1..Len(tabs[t].dispatched) :
               LET d == tabs[t].dispatched[i]
                   words == Split(d.command)
               IN  /\ d.route = "editor" <=> (words[1] = PrefixText /\ Len(words) >= 2)
                   /\ d.route = "usage" <=> words = <<PrefixText>>
        /\ tabs[t].in_editor =>
               LET d == tabs[t].dispatched[Len(tabs[t].dispatched)]
               IN  tabs[t].editor.file_path = Drop(d.command, Len(PrefixText) + 1)

C7_ResetInitial ==
    [][ \A t \in Tabs :
            (MenuReset(t) \/ (KeyEnter(t) /\ CommandAtCursor(tabs[t]) = CmdReset)) =>
                /\ tabs'[t].doc = <<tabs'[t].prompt>>
                /\ tabs'[t].cwd = tabs[t].created
                /\ tabs'[t].prompt = PromptOf(tabs[t].created)
                /\ tabs'[t].command_history = <<>>
                /\ tabs'[t].history_index = -1
      ]_vars

\* ---- C8 ----------------------------------------------------------------
\* a key the event filter handles without executing a command
C8_KeyEvent(t) ==
    \/ \E key \in NavKeys : KeyNav(t, key)
    \/ \E s \in Typed : TypeText(t, s)

\* C8: after any key event on an idle terminal the first len(prompt)
\* characters of the input line are the prompt and the cursor is not left
\* of it.
C8_PromptProtected ==
    [][ \A t \in Tabs :
            (Idle(t) /\ C8_KeyEvent(t)) =>
                /\ StartsWith(CurLine(tabs'[t]), tabs'[t].prompt)
                /\ tabs'[t].cur.c >= Len(tabs'[t].prompt)
      ]_vars

\* ---- C9 ----------------------------------------------------------------
\* a step that ends a command of tab t
C9_CommandEnds(t) ==
    \/ KeyEnter(t)
    \/ \E ok \in BOOLEAN : DialogAnswered(t, ok)
    \/ exit_editor(t)
    \/ (Deliver /\ Head(mq).tab = t /\ Head(mq).kind = "commandFinished")

\* C9: whenever a command has ended and the terminal is idle, the last line
\* of the display begins with the current prompt.
C9_PromptLine ==
    [][ \A t \in Tabs :
            (C9_CommandEnds(t) /\ Idle(t)') =>
                StartsWith(LastLine(tabs'[t]), tabs'[t].prompt)
      ]_vars

====
